---- MODULE Spec2Model ----
(***************************************************************************)
(* Gemini live chat: the browser client (mic capture, playback scheduler)  *)
(* and the Node relay (one upstream Gemini socket per browser socket).     *)
(*                                                                         *)
(* Two programs, two groups of variables.  ClientSpec runs the browser     *)
(* client of src/unnamed/part_000 against an arbitrary relay; RelaySpec    *)
(* runs the relay of src/Server/index.js against arbitrary browsers and an *)
(* arbitrary upstream.  MicSpec runs the capture worklet that the client   *)
(* loads on the audio thread against arbitrary input blocks.               *)
(***************************************************************************)
EXTENDS Integers, Sequences, FiniteSets, TLC

(***************************************************************************)
(* Bounds of the model.                                                    *)
(***************************************************************************)
\* start() invocations that get past `if (ws) return` in one run
MaxStarts == 2
\* audio frames the relay delivers to the client in one run
MaxFrames == 3

\* messages the relay receives in one run, from browsers and upstream alike
MaxMsgs == 2
\* process() calls of the mic worklet in one run
MaxCalls == 3

Starts == 1..MaxStarts
\* every playLoop that suspends was started with playing = false and an audio
\* context, so there are never more of them than contexts, i.e. than starts
Loops == 1..MaxStarts

(***************************************************************************)
(* Client state (src/unnamed/part_000, lines 8-12) and its environment.    *)
(***************************************************************************)
VARIABLES
  ws,             \* let ws: 0 is null/undefined, k the socket made by start k
  audioCtx,       \* let audioCtx: 0 is null, k the context made by start k
  workletNode,    \* let workletNode: 0 is null, k the node made by start k
  playbackQueue,  \* let playbackQueue = []: sequence of frames
  playing,        \* let playing = false
  sock,           \* readyState of the browser WebSocket each start made
  startPc,        \* where each invocation of the async function start is
  loops,          \* the invocations of the async function playLoop
  nframes,        \* frames pushed so far; a frame's id is its arrival number
  handled,        \* history: frames playLoop dequeued, with what became of them
  undisturbed,    \* history: no stop() and no interruption so far
  stopRun         \* history: consecutive stop() calls just made (capped at 2)

clientVars == <<ws, audioCtx, workletNode, playbackQueue, playing, sock,
                startPc, loops, nframes, handled, undisturbed, stopRun>>

(***************************************************************************)
(* Relay state (src/Server/index.js).  The relay keeps no variable of its  *)
(* own: a session is the closure of one wss 'connection' callback, holding *)
(* the two sockets `client` and `gemini`.  The process is shared.          *)
(***************************************************************************)
VARIABLES
  client,         \* per session: readyState of the browser's socket
  gemini,         \* per session: readyState of the upstream socket
  opened,         \* per session, history: upstream sockets constructed
  toGemini,       \* per session, history: what gemini.send put on the wire
  toClient,       \* per session, history: what client.send put on the wire
  fromClient,     \* per session, history: envelopes of the well-formed text
                  \* messages received while the upstream was connecting or open
  fromGemini,     \* per session, history: messages received from the upstream
  crashed,        \* the Node process died of an uncaught exception
  nMsgs           \* messages received so far, from browsers and from upstream

relayVars == <<client, gemini, opened, toGemini, toClient, fromClient,
               fromGemini, crashed, nMsgs>>

(***************************************************************************)
(* Mic worklet state (src/unnamed/part_000, lines 31-38): one MicWorklet   *)
(* processor on the audio thread.                                          *)
(***************************************************************************)
VARIABLES
  acc,            \* this._acc
  resampleBuffer, \* this._resampleBuffer: scaled samples not yet posted
  posted,         \* history: the frames given to this.port.postMessage
  kept,           \* history: the input samples the resampler kept, in order
  nIn,            \* history: input samples consumed so far
  nCalls          \* history: process() calls so far

micVars == <<acc, resampleBuffer, posted, kept, nIn, nCalls>>

vars == <<clientVars, relayVars, micVars>>

\* A frame is what atob() produced: its arrival number and whether lines
\* 200-213 can play it.  They can when it holds a positive even number of
\* bytes; on an odd number view.getInt16 reads past the end, on none
\* createBuffer rejects the length 0, and either throws.
Frame(i, playable) == [id |-> i, playable |-> playable]

NoLoop == [pc |-> "none", frame |-> 0, stale |-> FALSE]

ClientInit ==
  /\ ws = 0
  /\ audioCtx = 0
  /\ workletNode = 0
  /\ playbackQueue = <<>>
  /\ playing = FALSE
  /\ sock = [k \in Starts |-> "none"]
  /\ startPc = [k \in Starts |-> "none"]
  /\ loops = [l \in Loops |-> NoLoop]
  /\ nframes = 0
  /\ handled = <<>>
  /\ undisturbed = TRUE
  /\ stopRun = 0

(***************************************************************************)
(* Environment of the client: what the relay may deliver on a socket.      *)
(* kind "malformed" is text JSON.parse rejects; "other" is any JSON value  *)
(* with neither setupComplete nor serverContent (such as the relay's       *)
(* {error, detail}); audio is what parts[0].inlineData.data holds: nothing,*)
(* base64 of PCM16 samples, base64 of bytes that are no PCM16 samples, or  *)
(* text atob() rejects.                                                    *)
(***************************************************************************)
AudioParts == {"none", "pcm", "notpcm", "badb64"}

ServerMsgs ==
  [kind : {"malformed", "setupComplete", "other"},
   interrupted : {FALSE}, audio : {"none"}]
  \cup [kind : {"serverContent"}, interrupted : BOOLEAN, audio : AudioParts]

FrameIds(q) == {q[i].id : i \in 1..Len(q)}

(***************************************************************************)
(* playLoop, lines 190-217.                                                *)
(***************************************************************************)
\* (a pop() where line 193 has shift())
DequeueLast(q) == [head |-> q[Len(q)], rest |-> SubSeq(q, 1, Len(q) - 1)]
\* playbackQueue.shift(), line 193 (called on a non-empty queue)
Dequeue(q) == [head |-> Head(q), rest |-> Tail(q)]

\* Lines 200-213 for one dequeued frame: the conversion of a frame that is
\* no PCM16 throws, audioCtx.createBuffer on a null audioCtx throws a
\* TypeError; otherwise the buffer source is started.
Decodes(f, ctx) == f.playable /\ ctx # 0

\* One pass of `while (playing)` (lines 192-216) from the loop test to the
\* next await, return or throw.  Every path through the body ends in one of
\* these, so one pass is all a resumed invocation runs before it yields.
\*   q, pl, ctx: playbackQueue, playing, audioCtx as the invocation sees them
\*   stale: the invocation's history flag
LoopPass(q, pl, ctx, stale) ==
  IF ~pl
    THEN [loop |-> NoLoop, queue |-> q, done |-> <<>>]
  ELSE IF q = <<>>
    THEN [loop |-> [pc |-> "sleep", frame |-> 0, stale |-> stale],
          queue |-> q, done |-> <<>>]
  ELSE LET d == Dequeue(q) IN
    IF Decodes(d.head, ctx)
      THEN [loop |-> [pc |-> "ended", frame |-> d.head.id, stale |-> stale],
            queue |-> d.rest,
            done |-> <<[id |-> d.head.id, out |-> "played"]>>]
      ELSE [loop |-> NoLoop, queue |-> d.rest,
            done |-> <<[id |-> d.head.id, out |-> "error"]>>]

\* Line 196-198: the 10 ms timer of a waiting invocation fires.
TimerFires(l) ==
  /\ loops[l].pc = "sleep"
  /\ LET r == IF ws = 0
                THEN [loop |-> NoLoop, queue |-> playbackQueue, done |-> <<>>]
                ELSE LoopPass(playbackQueue, playing, audioCtx, loops[l].stale)
     IN /\ loops' = [loops EXCEPT ![l] = r.loop]
        /\ playbackQueue' = r.queue
        /\ handled' = handled \o r.done
  /\ stopRun' = 0
  /\ UNCHANGED <<ws, audioCtx, workletNode, playing, sock, startPc, nframes,
                 undisturbed>>
  /\ UNCHANGED <<relayVars, micVars>>

\* Line 215: the source the invocation started ends (src.onended).  A source
\* on a context that stop() closed may or may not report its end: the action
\* is enabled, nothing forces it.
OnEnded(l) ==
  /\ loops[l].pc = "ended"
  /\ LET r == LoopPass(playbackQueue, playing, audioCtx, loops[l].stale)
     IN /\ loops' = [loops EXCEPT ![l] = r.loop]
        /\ playbackQueue' = r.queue
        /\ handled' = handled \o r.done
  /\ stopRun' = 0
  /\ UNCHANGED <<ws, audioCtx, workletNode, playing, sock, startPc, nframes,
                 undisturbed>>
  /\ UNCHANGED <<relayVars, micVars>>

(***************************************************************************)
(* ws.onmessage, lines 102-141.                                            *)
(***************************************************************************)
\* (lines 113-117 without the assignment)
KeepOnInterrupt(q, interrupted) == q
\* Lines 113-117: playbackQueue = [] when serverContent.interrupted is set.
FlushOnInterrupt(q, interrupted) == IF interrupted THEN <<>> ELSE q

FreeLoop == CHOOSE l \in Loops : loops[l].pc = "none"

\* Lines 112-132 for a serverContent message.  An audio part is decoded and
\* pushed; with playing false, playing is set and playLoop() is called, which
\* returns at once without an audioCtx (line 191) and otherwise runs its
\* first pass synchronously.
OnServerContent(m) ==
  LET q1 == FlushOnInterrupt(playbackQueue, m.interrupted)
  IN
  /\ undisturbed' = (undisturbed /\ ~m.interrupted)
  /\ IF m.audio \in {"pcm", "notpcm"}
       THEN /\ nframes < MaxFrames
            /\ nframes' = nframes + 1
            /\ LET q2 == Append(q1, Frame(nframes + 1, m.audio = "pcm")) IN
               IF playing
                 THEN /\ playbackQueue' = q2
                      /\ UNCHANGED <<playing, loops, handled>>
               ELSE IF audioCtx = 0
                 THEN /\ playbackQueue' = q2
                      /\ playing' = TRUE
                      /\ UNCHANGED <<loops, handled>>
               ELSE LET r == LoopPass(q2, TRUE, audioCtx, FALSE) IN
                      /\ playing' = TRUE
                      /\ playbackQueue' = r.queue
                      /\ handled' = handled \o r.done
                      /\ loops' = IF r.loop.pc = "none" THEN loops
                                  ELSE [loops EXCEPT ![FreeLoop] = r.loop]
       ELSE \* no audio part, or atob() threw into the catch of line 138
            /\ playbackQueue' = q1
            /\ UNCHANGED <<nframes, playing, loops, handled>>

\* A message event on socket k.  The browser delivers message events only
\* while the socket's readyState is OPEN.  The handler was installed by the
\* start that made the socket and works on the globals, whichever socket ws
\* refers to by now.
OnMessage(k, m) ==
  /\ sock[k] = "OPEN"
  /\ IF m.kind = "serverContent"
       THEN OnServerContent(m)
       ELSE \* JSON.parse threw, setupComplete returned, or nothing matched
            UNCHANGED <<playbackQueue, playing, loops, nframes, handled,
                        undisturbed>>
  /\ stopRun' = 0
  /\ UNCHANGED <<ws, audioCtx, workletNode, sock, startPc>>
  /\ UNCHANGED <<relayVars, micVars>>

(***************************************************************************)
(* stop, lines 177-187.                                                    *)
(***************************************************************************)
\* WebSocket.close() of the browser: starts the closing handshake of a
\* connecting or open socket, does nothing to a closing or closed one.
CloseSocket(st) == IF st \in {"CONNECTING", "OPEN"} THEN "CLOSING" ELSE st

\* (a shift() where line 181 empties the queue)
DrainOne(q) == IF q = <<>> THEN q ELSE Tail(q)
\* Line 181: playbackQueue = []
StopQueue(q) == <<>>

stop ==
  /\ sock' = IF ws # 0 THEN [sock EXCEPT ![ws] = CloseSocket(sock[ws])]
             ELSE sock
  /\ ws' = 0
  /\ workletNode' = 0
  /\ audioCtx' = 0
  /\ playbackQueue' = StopQueue(playbackQueue)
  /\ playing' = FALSE
  /\ loops' = [l \in Loops |->
                 IF loops[l].pc = "none" THEN loops[l]
                 ELSE [loops[l] EXCEPT !.stale = TRUE]]
  /\ undisturbed' = FALSE
  /\ stopRun' = IF stopRun < 2 THEN stopRun + 1 ELSE 2
  /\ UNCHANGED <<startPc, nframes, handled>>
  /\ UNCHANGED <<relayVars, micVars>>

(***************************************************************************)
(* start, lines 80-175, an async function: three runs between its awaits.  *)
(***************************************************************************)
FreeStart == CHOOSE k \in Starts : startPc[k] = "none" /\
                                   \A j \in Starts : startPc[j] = "none" => k <= j

\* Lines 81-144: return if ws is set; else make the socket, install its
\* handlers and await getUserMedia.
start ==
  /\ \E k \in Starts : startPc[k] = "none"
  /\ IF ws # 0
       THEN UNCHANGED <<ws, sock, startPc>>
       ELSE /\ ws' = FreeStart
            /\ sock' = [sock EXCEPT ![FreeStart] = "CONNECTING"]
            /\ startPc' = [startPc EXCEPT ![FreeStart] = "gum"]
  /\ stopRun' = 0
  /\ UNCHANGED <<audioCtx, workletNode, playbackQueue, playing, loops,
                 nframes, handled, undisturbed>>
  /\ UNCHANGED <<relayVars, micVars>>

\* Lines 144 and 21-23: getUserMedia settles.  Granted: setupAudioWorklet
\* assigns a new AudioContext to audioCtx and awaits addModule.  Denied: the
\* promise start returned rejects, nothing is undone.
GetUserMedia(k, granted) ==
  /\ startPc[k] = "gum"
  /\ IF granted
       THEN /\ audioCtx' = k
            /\ startPc' = [startPc EXCEPT ![k] = "mod"]
       ELSE /\ startPc' = [startPc EXCEPT ![k] = "failed"]
            /\ UNCHANGED audioCtx
  /\ stopRun' = 0
  /\ UNCHANGED <<ws, workletNode, playbackQueue, playing, sock, loops,
                 nframes, handled, undisturbed>>
  /\ UNCHANGED <<relayVars, micVars>>

\* The worklet module is registered on context c once the start that made c
\* got past its addModule await.
ModuleLoaded(c, k) == c = k \/ startPc[c] \in {"done", "failed"}

\* Lines 23-25 and 145-174: addModule settles.  It resolves on a context
\* that is open; on one that stop() closed meanwhile (audioCtx no longer
\* refers to it) it may resolve or reject.  Then new AudioWorkletNode reads
\* the global audioCtx: null throws a TypeError, a context without the
\* module throws too.  The greeting ws?.send throws on a socket that is still
\* CONNECTING, is skipped on a null ws.
AddModule(k, resolved) ==
  /\ startPc[k] = "mod"
  /\ resolved \/ audioCtx # k
  /\ IF ~resolved \/ audioCtx = 0 \/ ~ModuleLoaded(audioCtx, k)
       THEN /\ startPc' = [startPc EXCEPT ![k] = "failed"]
            /\ UNCHANGED workletNode
       ELSE /\ workletNode' = k
            /\ startPc' = [startPc EXCEPT ![k] =
                 IF ws # 0 /\ sock[ws] = "CONNECTING" THEN "failed"
                 ELSE "done"]
  /\ stopRun' = 0
  /\ UNCHANGED <<ws, audioCtx, playbackQueue, playing, sock, loops, nframes,
                 handled, undisturbed>>
  /\ UNCHANGED <<relayVars, micVars>>

(***************************************************************************)
(* Socket events, lines 87-97.                                             *)
(***************************************************************************)
\* ws.onopen, lines 87-90: status text only.
SocketOpen(k) ==
  /\ sock[k] = "CONNECTING"
  /\ sock' = [sock EXCEPT ![k] = "OPEN"]
  /\ stopRun' = 0
  /\ UNCHANGED <<ws, audioCtx, workletNode, playbackQueue, playing, startPc,
                 loops, nframes, handled, undisturbed>>
  /\ UNCHANGED <<relayVars, micVars>>

\* ws.onclose, lines 93-97: the close event of socket k (the relay closed it,
\* the connection failed, or the closing handshake stop() began completed).
\* The handler clears the global ws, whichever socket it refers to.
SocketClose(k) ==
  /\ sock[k] \in {"CONNECTING", "OPEN", "CLOSING"}
  /\ sock' = [sock EXCEPT ![k] = "CLOSED"]
  /\ ws' = 0
  /\ stopRun' = 0
  /\ UNCHANGED <<audioCtx, workletNode, playbackQueue, playing, startPc,
                 loops, nframes, handled, undisturbed>>
  /\ UNCHANGED <<relayVars, micVars>>

ClientNext ==
  \/ start
  \/ stop
  \/ \E k \in Starts, granted \in BOOLEAN : GetUserMedia(k, granted)
  \/ \E k \in Starts, resolved \in BOOLEAN : AddModule(k, resolved)
  \/ \E k \in Starts : SocketOpen(k)
  \/ \E k \in Starts : SocketClose(k)
  \/ \E k \in Starts, m \in ServerMsgs : OnMessage(k, m)
  \/ \E l \in Loops : TimerFires(l)
  \/ \E l \in Loops : OnEnded(l)

(***************************************************************************)
(* The relay, src/Server/index.js.                                         *)
(***************************************************************************)
\* Two browser connections are enough for every property of one session and
\* for those about a pair of sessions.
Sessions == {"A", "B"}

\* JSON text on the wire: the value it denotes ("invalid" when JSON.parse
\* rejects it) and whether it is written with insignificant white space.
\* JSON.parse forgets the spelling, JSON.stringify writes the compact one.
JsonValues == {"clientContent", "realtimeInput"}
JsonTexts == {[val |-> "clientContent", spaced |-> FALSE],
              [val |-> "realtimeInput", spaced |-> TRUE],
              [val |-> "invalid", spaced |-> FALSE]}
\* (a parser that accepts every text)
ParsesAnything(t) == TRUE
\* Line 71: JSON.parse(data.toString()) returns, or throws a SyntaxError
JsonParses(t) == t.val # "invalid"
JsonParse(t) == t.val
JsonStringify(v) == [val |-> v, spaced |-> FALSE]

\* What a browser may send: a text frame, or a binary frame of raw PCM.
ClientData == [isBinary : {FALSE}, text : JsonTexts]
              \cup [isBinary : {TRUE}, text : {[val |-> "pcm", spaced |-> FALSE]}]
\* What the upstream may send: opaque payloads.
Payloads == {"x", "y"}

\* Lines 43-63: the setup message.
SetupMsg == [from |-> "relay", text |-> JsonStringify("setup")]
\* Line 109: the error envelope {error, detail}.
ErrorMsg == [from |-> "relay", body |-> "error"]

RelayInit ==
  /\ client = [s \in Sessions |-> "none"]
  /\ gemini = [s \in Sessions |-> "none"]
  /\ opened = [s \in Sessions |-> 0]
  /\ toGemini = [s \in Sessions |-> <<>>]
  /\ toClient = [s \in Sessions |-> <<>>]
  /\ fromClient = [s \in Sessions |-> <<>>]
  /\ fromGemini = [s \in Sessions |-> <<>>]
  /\ crashed = FALSE
  /\ nMsgs = 0

\* send() of the ws package, as called without a callback at lines 63, 72,
\* 87, 99 and 109: it throws on a socket that is still CONNECTING, writes on
\* an OPEN one, and discards the data on a CLOSING or CLOSED one.
WsSend(st, wire, msg) ==
  IF st = "CONNECTING" THEN [wire |-> wire, threw |-> TRUE]
  ELSE IF st = "OPEN" THEN [wire |-> Append(wire, msg), threw |-> FALSE]
  ELSE [wire |-> wire, threw |-> FALSE]

\* (line 93 left out)
LeaveUpstream(st) == st
\* close() of the ws package on the upstream socket, line 93: a CONNECTING
\* socket has its handshake aborted (it will emit 'error', then 'close'), an
\* OPEN one starts the closing handshake, otherwise nothing.
CloseUpstream(st) ==
  IF st = "CONNECTING" THEN "ABORTING"
  ELSE IF st = "OPEN" THEN "CLOSING"
  ELSE st

\* close() on the browser's socket, line 104.
CloseClient(st) == IF st = "OPEN" THEN "CLOSING" ELSE st

\* An exception no handler catches ends the Node process, and with it every
\* socket of every session.
Crash ==
  /\ crashed' = TRUE
  /\ client' = [s \in Sessions |-> IF client[s] = "none" THEN "none" ELSE "CLOSED"]
  /\ gemini' = [s \in Sessions |-> IF gemini[s] = "none" THEN "none" ELSE "CLOSED"]

\* Lines 34-38: wss 'connection'.
Connection(s) ==
  /\ ~crashed
  /\ client[s] = "none"
  /\ client' = [client EXCEPT ![s] = "OPEN"]
  /\ gemini' = [gemini EXCEPT ![s] = "CONNECTING"]
  /\ opened' = [opened EXCEPT ![s] = @ + 1]
  /\ UNCHANGED <<toGemini, toClient, fromClient, fromGemini, crashed, nMsgs>>
  /\ UNCHANGED <<clientVars, micVars>>

\* (line 63 left out)
NoSetup(wire) == wire
\* Lines 40-64: gemini 'open'.  The ws package sets readyState to OPEN and
\* emits 'open' in the same turn, so the handler's send is the first.
SendSetup(wire) == WsSend("OPEN", wire, SetupMsg).wire

GeminiOpen(s) ==
  /\ ~crashed
  /\ gemini[s] = "CONNECTING"
  /\ gemini' = [gemini EXCEPT ![s] = "OPEN"]
  /\ toGemini' = [toGemini EXCEPT ![s] = SendSetup(@)]
  /\ UNCHANGED <<client, opened, toClient, fromClient, fromGemini, crashed,
                 nMsgs>>
  /\ UNCHANGED <<clientVars, micVars>>

\* Lines 67-89: client 'message'.  A text frame is parsed and re-serialised
\* inside the try: a parse error and a throwing send are both caught at line
\* 73.  A binary frame is wrapped and sent outside any try.
ClientMessage(s, d) ==
  /\ ~crashed
  /\ client[s] \in {"OPEN", "CLOSING"}
  /\ nMsgs < MaxMsgs
  /\ nMsgs' = nMsgs + 1
  /\ fromClient' =
       IF ~d.isBinary /\ JsonParses(d.text) /\ gemini[s] \in {"CONNECTING", "OPEN"}
         THEN [fromClient EXCEPT ![s] = Append(@, JsonParse(d.text))]
         ELSE fromClient
  /\ IF ~d.isBinary
       THEN IF JsonParses(d.text)
              THEN LET r == WsSend(gemini[s], toGemini[s],
                                   [from |-> "client",
                                    text |-> JsonStringify(JsonParse(d.text))])
                   IN /\ toGemini' = [toGemini EXCEPT ![s] = r.wire]
                      /\ UNCHANGED <<client, gemini, crashed>>
              ELSE UNCHANGED <<toGemini, client, gemini, crashed>>
       ELSE LET r == WsSend(gemini[s], toGemini[s],
                            [from |-> "wrapped",
                             text |-> JsonStringify("realtimeInput")])
            IN IF r.threw
                 THEN Crash /\ UNCHANGED toGemini
                 ELSE /\ toGemini' = [toGemini EXCEPT ![s] = r.wire]
                      /\ UNCHANGED <<client, gemini, crashed>>
  /\ UNCHANGED <<opened, toClient, fromGemini>>
  /\ UNCHANGED <<clientVars, micVars>>

\* Lines 91-94: client 'close' (the browser closed or went away, or the
\* closing handshake the relay began at line 104 completed).
ClientClose(s) ==
  /\ ~crashed
  /\ client[s] \in {"OPEN", "CLOSING"}
  /\ client' = [client EXCEPT ![s] = "CLOSED"]
  /\ gemini' = [gemini EXCEPT ![s] = CloseUpstream(@)]
  /\ UNCHANGED <<opened, toGemini, toClient, fromClient, fromGemini, crashed,
                 nMsgs>>
  /\ UNCHANGED <<clientVars, micVars>>

\* (line 99 run twice)
ForwardTwice(st, wire, data) ==
  WsSend(st, WsSend(st, wire, [from |-> "upstream", body |-> data]).wire,
         [from |-> "upstream", body |-> data]).wire
\* Lines 97-100: gemini 'message'.  The ws package delivers messages until
\* the peer's close frame, also after close() was called locally.
Forward(st, wire, data) ==
  WsSend(st, wire, [from |-> "upstream", body |-> data]).wire

GeminiMessage(s, data) ==
  /\ ~crashed
  /\ gemini[s] \in {"OPEN", "CLOSING"}
  /\ nMsgs < MaxMsgs
  /\ nMsgs' = nMsgs + 1
  /\ fromGemini' = [fromGemini EXCEPT ![s] = Append(@, data)]
  /\ toClient' = [toClient EXCEPT ![s] = Forward(client[s], @, data)]
  /\ UNCHANGED <<client, gemini, opened, toGemini, fromClient, crashed>>
  /\ UNCHANGED <<clientVars, micVars>>

\* (line 109 left out)
SwallowError(st, wire) == wire
\* Lines 107-110: gemini 'error' (the connection attempt failed, or the open
\* connection broke).  The ws package moves the socket to CLOSING before it
\* emits 'error', and emits 'close' afterwards.
ReportError(st, wire) == WsSend(st, wire, ErrorMsg).wire

GeminiError(s) ==
  /\ ~crashed
  /\ gemini[s] \in {"CONNECTING", "OPEN"}
  /\ gemini' = [gemini EXCEPT ![s] = "CLOSING"]
  /\ toClient' = [toClient EXCEPT ![s] = ReportError(client[s], @)]
  /\ UNCHANGED <<client, opened, toGemini, fromClient, fromGemini, crashed,
                 nMsgs>>
  /\ UNCHANGED <<clientVars, micVars>>

\* Lines 102-105: gemini 'close'.  GeminiClosed is the close event of a
\* socket that is CLOSING (after an error, or after close() at line 93);
\* GeminiHangUp is the upstream ending an open connection.
GeminiClosed(s) ==
  /\ ~crashed
  /\ gemini[s] = "CLOSING"
  /\ gemini' = [gemini EXCEPT ![s] = "CLOSED"]
  /\ client' = [client EXCEPT ![s] = CloseClient(@)]
  /\ UNCHANGED <<opened, toGemini, toClient, fromClient, fromGemini, crashed,
                 nMsgs>>
  /\ UNCHANGED <<clientVars, micVars>>

GeminiHangUp(s) ==
  /\ ~crashed
  /\ gemini[s] = "OPEN"
  /\ gemini' = [gemini EXCEPT ![s] = "CLOSED"]
  /\ client' = [client EXCEPT ![s] = CloseClient(@)]
  /\ UNCHANGED <<opened, toGemini, toClient, fromClient, fromGemini, crashed,
                 nMsgs>>
  /\ UNCHANGED <<clientVars, micVars>>

\* Lines 34-111 install no 'error' listener on `client`: when the browser's
\* socket emits 'error' (a broken frame, a reset connection) the emitter
\* throws, and nothing catches it.
ClientError(s) ==
  /\ ~crashed
  /\ client[s] \in {"OPEN", "CLOSING"}
  /\ Crash
  /\ UNCHANGED <<opened, toGemini, toClient, fromClient, fromGemini, nMsgs>>
  /\ UNCHANGED <<clientVars, micVars>>

\* Lines 107-110 then 102-105: the handshake that close() aborted ends; the
\* ws package emits 'error' and 'close' one after the other.
GeminiAborted(s) ==
  /\ ~crashed
  /\ gemini[s] = "ABORTING"
  /\ gemini' = [gemini EXCEPT ![s] = "CLOSED"]
  /\ toClient' = [toClient EXCEPT ![s] = ReportError(client[s], @)]
  /\ client' = [client EXCEPT ![s] = CloseClient(@)]
  /\ UNCHANGED <<opened, toGemini, fromClient, fromGemini, crashed, nMsgs>>
  /\ UNCHANGED <<clientVars, micVars>>

RelayNext ==
  \/ \E s \in Sessions : Connection(s)
  \/ \E s \in Sessions : GeminiOpen(s)
  \/ \E s \in Sessions, d \in ClientData : ClientMessage(s, d)
  \/ \E s \in Sessions : ClientClose(s)
  \/ \E s \in Sessions, data \in Payloads : GeminiMessage(s, data)
  \/ \E s \in Sessions : GeminiError(s)
  \/ \E s \in Sessions : GeminiClosed(s)
  \/ \E s \in Sessions : GeminiHangUp(s)
  \/ \E s \in Sessions : GeminiAborted(s)
  \/ \E s \in Sessions : ClientError(s)

(***************************************************************************)
(* The mic worklet, src/unnamed/part_000 lines 29-78.                      *)
(***************************************************************************)
\* Line 21: the AudioContext is made with sampleRate 48000, which is the
\* global sampleRate the processor reads at line 34.
SourceRate == 48000
\* Line 35
TargetRate == 16000
\* Line 36: this._ratio; the division is exact for these rates
Ratio == SourceRate \div TargetRate
\* Line 63: Math.floor(0.02 * this._targetRate)
SamplesPerChunk == (2 * TargetRate) \div 100
\* Line 56: 0x8000 and 0x7FFF
NegScale == 32768
PosScale == 32767

\* Input samples are 32-bit floats; the model takes them from the multiples
\* of 2^-16, written as their numerators: sample k stands for k / Den.
Den == 2^16
\* A scaled sample (line 56) is a product of such a float with a 16-bit
\* integer, exact in a double: it is kept as its numerator over Den.

\* The blocks process() may be given: a length and a signal.  A signal is a
\* cycle of sample values; the cycle lengths are prime to Ratio, so that
\* every value of a signal is among the samples kept.
CallLens == {1, 128, 960, 1920}
Quiet == <<0, 1, -1, Den \div 2 + 1, -(Den \div 2)>>
Loud == <<Den, -Den, Den - 1, Den + 4464, 1 - Den, -Den - 4464, 3 * Den>>
Signals == {Quiet, Loud}
SampleAt(sig, i) == sig[((i - 1) % Len(sig)) + 1]

MicInit ==
  /\ acc = 0
  /\ resampleBuffer = <<>>
  /\ posted = <<>>
  /\ kept = <<>>
  /\ nIn = 0
  /\ nCalls = 0

\* Line 55: Math.max(-1, Math.min(1, sample))
Clamp(k) == IF k > Den THEN Den ELSE IF k < -Den THEN -Den ELSE k

\* (line 56 with one factor for both signs)
ScaleSame(k) == k * PosScale
\* Line 56: s < 0 ? s * 0x8000 : s * 0x7FFF
Scale(k) == IF k < 0 THEN k * NegScale ELSE k * PosScale

\* Line 69: DataView.setInt16 of a number: truncate towards zero, then keep
\* the low 16 bits as a two's complement integer.
ToInt16(num) ==
  LET t == IF num >= 0 \/ num % Den = 0 THEN num \div Den
           ELSE (num \div Den) + 1
  IN ((t + 2^15) % 2^16) - 2^15

\* Line 206: s / 0x8000 on the playback side, as a numerator over Den
Decode(e) == e * (Den \div NegScale)

\* (line 51 with > where the code has >=)
KeepsLate(a) == a > Ratio
\* Line 51: this._acc >= this._ratio
Keeps(a) == a >= Ratio

\* Lines 50-59: the body of the loop for sample i of the channel, on the
\* state st of accumulator, buffer and kept-history.
ResampleStep(sig, i, st) ==
  IF Keeps(st.acc + 1)
    THEN [acc |-> st.acc + 1 - Ratio,
          buf |-> Append(st.buf, Scale(Clamp(SampleAt(sig, i)))),
          kept |-> Append(st.kept, SampleAt(sig, i))]
    ELSE [st EXCEPT !.acc = st.acc + 1]

\* Lines 49-60: the loop, i.e. the body for the samples i..j in order (the
\* range is run as its first half, then its second half, which starts from
\* the state the first half ended in; the accumulator is never negative).
RECURSIVE Resample(_, _, _, _)
Resample(sig, i, j, st) ==
  IF i > j THEN st
  ELSE IF i = j THEN ResampleStep(sig, i, st)
  ELSE LET m == (i + j) \div 2
           half == Resample(sig, i, m, st)
       IN CASE half.acc >= 0 -> Resample(sig, m + 1, j, half)

\* (a splice off the end of the buffer)
SpliceTail(buf, n) ==
  [chunk |-> SubSeq(buf, Len(buf) - n + 1, Len(buf)),
   rest |-> SubSeq(buf, 1, Len(buf) - n)]
\* Line 65: this._resampleBuffer.splice(0, samplesPerChunk)
Splice(buf, n) ==
  [chunk |-> SubSeq(buf, 1, n), rest |-> SubSeq(buf, n + 1, Len(buf))]

\* Lines 64-72: post a frame per full chunk while the buffer holds one.
RECURSIVE EmitChunks(_, _)
EmitChunks(buf, out) ==
  IF Len(buf) >= SamplesPerChunk
    THEN LET sp == Splice(buf, SamplesPerChunk)
         IN EmitChunks(sp.rest,
                       Append(out, [i \in 1..SamplesPerChunk |->
                                      ToInt16(sp.chunk[i])]))
    ELSE [buf |-> buf, out |-> out]

\* Lines 42-75: process(inputs) with a channel of len samples of signal sig.
Process(len, sig) ==
  /\ nCalls < MaxCalls
  /\ nCalls' = nCalls + 1
  /\ nIn' = nIn + len
  /\ LET r == Resample(sig, 1, len,
                        [acc |-> acc, buf |-> resampleBuffer, kept |-> kept])
         e == EmitChunks(r.buf, posted)
     IN /\ acc' = r.acc
        /\ kept' = r.kept
        /\ resampleBuffer' = e.buf
        /\ posted' = e.out
  /\ UNCHANGED <<clientVars, relayVars>>

\* Lines 43-46: process(inputs) with no input connected returns at once.
ProcessNoInput ==
  /\ nCalls < MaxCalls
  /\ nCalls' = nCalls + 1
  /\ UNCHANGED <<acc, resampleBuffer, posted, kept, nIn>>
  /\ UNCHANGED <<clientVars, relayVars>>

MicNext ==
  \/ \E len \in CallLens, sig \in Signals : Process(len, sig)
  \/ ProcessNoInput

(***************************************************************************)
(* Specifications.                                                         *)
(***************************************************************************)
Init == ClientInit /\ RelayInit /\ MicInit

\* The browser client against any relay.
ClientSpec == Init /\ [][ClientNext]_vars

\* The relay against any browsers and any upstream.
RelaySpec == Init /\ [][RelayNext]_vars

\* The capture worklet against any input blocks.
MicSpec == Init /\ [][MicNext]_vars

\* Either program on its own: the browser client while the relay has not
\* been connected to, or the relay while the client has not been started.
\* For what is said of both programs alike.
EitherNext ==
  \/ RelayInit /\ ClientNext
  \/ ClientInit /\ RelayNext
EitherSpec == Init /\ [][EitherNext]_vars

\* The relay with what the ws package guarantees: a socket that is closing
\* emits 'close' (the handshake completes, or its timer destroys the
\* socket), and an aborted handshake emits 'error' and 'close'.  Nothing
\* forces a browser or the upstream to connect, send, fail or hang up.
RelayFairSpec ==
  /\ RelaySpec
  /\ \A s \in Sessions :
       /\ WF_vars(GeminiClosed(s))
       /\ WF_vars(GeminiAborted(s))
       /\ WF_vars(client[s] = "CLOSING" /\ ClientClose(s))

(***************************************************************************)
(* Properties of the playback scheduler.                                   *)
(***************************************************************************)
HandledIds == [i \in 1..Len(handled) |-> handled[i].id]
QueueIds == [i \in 1..Len(playbackQueue) |-> playbackQueue[i].id]
ActiveLoops == {l \in Loops : loops[l].pc # "none"}
\* frames received that are neither queued nor taken by a playLoop
Discarded == (1..nframes) \ (FrameIds(playbackQueue) \cup FrameIds(handled))

\* A step that is the handling of a serverContent message with interrupted set
InterruptStep ==
  \E k \in Starts, m \in ServerMsgs : m.interrupted /\ OnMessage(k, m)

C2_QueueEmptyAfterInterrupt ==
  /\ [][InterruptStep => playbackQueue' = <<>>]_vars
  /\ [][Discarded \subseteq Discarded']_vars
  /\ [][InterruptStep =>
          \A l \in Loops : loops[l].pc = "ended" => loops'[l] = loops[l]]_vars

\* C2 as amended: handling an interrupted envelope removes every frame that
\* was queued; afterwards the queue holds at most the frame the same
\* envelope carried (none if a playLoop started on it at once); a discarded
\* frame is never queued or played again; a frame already playing is left
\* alone.
C2_InterruptFlushesQueued ==
  /\ [][InterruptStep =>
          /\ FrameIds(playbackQueue) \cap FrameIds(playbackQueue') = {}
          /\ FrameIds(playbackQueue) \subseteq Discarded'
          /\ Len(playbackQueue') <= 1
          /\ FrameIds(playbackQueue') \subseteq {nframes'} \ (1..nframes)]_vars
  /\ [][Discarded \subseteq Discarded']_vars
  /\ [][InterruptStep =>
          \A l \in Loops : loops[l].pc = "ended" => loops'[l] = loops[l]]_vars

\* An interruption discarded a frame that had arrived after a frame that is
\* still playing.
C2_Witness ==
  /\ ~undisturbed
  /\ \E l \in Loops, f \in Discarded :
       loops[l].pc = "ended" /\ loops[l].frame < f /\ ~loops[l].stale

\* C3: at most one playLoop invocation is suspended or running, hence at
\* most one buffer source is playing.
C3_OneDrainLoop == Cardinality(ActiveLoops) <= 1

\* C4: right after stop() the queue is empty, playing is false, ws, audioCtx
\* and workletNode are null; and a playLoop invocation that was suspended
\* when stop() ran never hands another frame to the output device.
C4_StopHaltsDrainLoop ==
  /\ [][stopRun' > stopRun =>
          /\ playbackQueue' = <<>> /\ ~playing'
          /\ ws' = 0 /\ audioCtx' = 0 /\ workletNode' = 0]_vars
  /\ [][\A l \in Loops :
          loops[l].stale =>
            ~(loops'[l].pc = "ended" /\ loops'[l].frame # loops[l].frame)]_vars

\* The client's own state: its five globals, its sockets, its start and
\* playLoop invocations.
ClientState == <<ws, audioCtx, workletNode, playbackQueue, playing, sock,
                 startPc, loops>>

\* C5: a stop() called right after a stop() changes nothing.
C5_StopIdempotent ==
  [][(stopRun >= 1 /\ stopRun' = 2) => UNCHANGED ClientState]_vars

\* stop() ran twice in a row on a session that had a socket and a playLoop.
C5_Witness ==
  /\ stopRun = 2
  /\ \E k \in Starts : sock[k] = "CLOSING"
  /\ ActiveLoops # {}

(***************************************************************************)
(* Properties of the relay.                                                *)
(***************************************************************************)
Count(seq, x) == Cardinality({i \in 1..Len(seq) : seq[i] = x})
IsPrefix(a, b) == Len(a) <= Len(b) /\ SubSeq(b, 1, Len(a)) = a

\* the envelopes of the text messages forwarded upstream, as the upstream
\* parses them
ForwardedUp(s) ==
  LET f == SelectSeq(toGemini[s], LAMBDA m : m.from = "client")
  IN [i \in 1..Len(f) |-> JsonParse(f[i].text)]
\* the upstream payloads forwarded to the browser
ForwardedDown(s) ==
  LET f == SelectSeq(toClient[s], LAMBDA m : m.from = "upstream")
  IN [i \in 1..Len(f) |-> f[i].body]

\* C6: every accepted browser connection has exactly one upstream socket;
\* the relay puts at most one setup message on it, has put it there as soon
\* as the upstream is open, and nothing precedes it on the wire.
C6_OneUpstreamSetupFirst ==
  \A s \in Sessions :
    /\ opened[s] = IF client[s] = "none" THEN 0 ELSE 1
    /\ Count(toGemini[s], SetupMsg) <= 1
    /\ toGemini[s] # <<>> => toGemini[s][1] = SetupMsg
    /\ gemini[s] = "OPEN" => toGemini[s] # <<>>

\* A session whose upstream got the setup and then an envelope of the browser.
C6_Witness ==
  \E s \in Sessions :
    /\ Len(toGemini[s]) >= 2
    /\ toGemini[s][2].from = "client"

\* C7: the envelopes forwarded upstream are the well-formed text envelopes
\* received while the upstream was connecting or open, each once, unchanged,
\* in the order received.
C7_EveryTextEnvelopeForwarded ==
  \A s \in Sessions : ForwardedUp(s) = fromClient[s]

\* C8: what the relay forwarded to the browser is, in order and unchanged, a
\* prefix of what the upstream sent, and all of it while the browser's
\* socket is open.
C8_UpstreamForwardedInOrder ==
  \A s \in Sessions :
    /\ IsPrefix(ForwardedDown(s), fromGemini[s])
    /\ client[s] = "OPEN" => ForwardedDown(s) = fromGemini[s]

\* Two different upstream messages went to an open browser socket.
C8_Witness ==
  \E s \in Sessions :
    /\ client[s] = "OPEN"
    /\ Len(ForwardedDown(s)) = 2
    /\ ForwardedDown(s)[1] # ForwardedDown(s)[2]

\* A step that handles a 'close' event of either socket of some session
CloseHandlerStep ==
  \E s \in Sessions :
    ClientClose(s) \/ GeminiClosed(s) \/ GeminiHangUp(s) \/ GeminiAborted(s)

\* C9: once the browser's socket has closed the upstream socket eventually
\* closes, and once the upstream socket has closed the browser's socket
\* eventually closes; handling a close event never brings the relay down.
C9_LifecycleCoupling ==
  /\ \A s \in Sessions : (client[s] = "CLOSED") ~> (gemini[s] = "CLOSED")
  /\ \A s \in Sessions : (gemini[s] = "CLOSED") ~> (client[s] = "CLOSED")
  /\ [][CloseHandlerStep => crashed' = crashed]_vars

\* A session that had an open upstream and ended with both sockets closed,
\* the process still up.
C9_Witness ==
  \E s \in Sessions :
    /\ ~crashed
    /\ toGemini[s] # <<>>
    /\ client[s] = "CLOSED" /\ gemini[s] = "CLOSED"

\* C10: an upstream error puts exactly one error envelope on an open
\* browser socket, that socket is closed eventually, and no session ever
\* has a second upstream socket.
C10_UpstreamErrorReported ==
  /\ [][\A s \in Sessions :
          (GeminiError(s) /\ client[s] = "OPEN") =>
            toClient'[s] = Append(toClient[s], ErrorMsg)]_vars
  /\ [](\A s \in Sessions : opened[s] <= 1 /\ Count(toClient[s], ErrorMsg) <= 1)
  /\ \A s \in Sessions :
       (Count(toClient[s], ErrorMsg) > 0) ~> (client[s] = "CLOSED")

\* A browser that was sent the error envelope and whose socket then closed.
C10_Witness ==
  \E s \in Sessions :
    /\ ~crashed
    /\ Count(toClient[s], ErrorMsg) = 1
    /\ client[s] = "CLOSED"

(***************************************************************************)
(* Properties of the relay across sessions.                                *)
(***************************************************************************)
Range(seq) == {seq[i] : i \in 1..Len(seq)}

\* What session s sends, receives, and whether it is open
SessionState(s) == <<client[s], gemini[s], toGemini[s], toClient[s]>>

\* A step that handles an event of session t
SessionStep(t) ==
  \/ Connection(t)
  \/ GeminiOpen(t)
  \/ \E d \in ClientData : ClientMessage(t, d)
  \/ ClientClose(t)
  \/ \E data \in Payloads : GeminiMessage(t, data)
  \/ GeminiError(t)
  \/ GeminiClosed(t)
  \/ GeminiHangUp(t)
  \/ GeminiAborted(t)
  \/ ClientError(t)

\* C11: what a session's browser is sent came from that session's upstream
\* (or is the relay's error envelope), what its upstream is sent came from
\* that session's browser (or is the relay's setup or wrapping), and no event
\* of another session changes what a session sends, receives, or whether its
\* sockets are open.
C11_SessionIsolation ==
  /\ [](\A s \in Sessions :
          /\ \A i \in 1..Len(toClient[s]) :
               \/ toClient[s][i] = ErrorMsg
               \/ /\ toClient[s][i].from = "upstream"
                  /\ toClient[s][i].body \in Range(fromGemini[s])
          /\ \A i \in 1..Len(toGemini[s]) :
               \/ toGemini[s][i] = SetupMsg
               \/ toGemini[s][i].from = "wrapped"
               \/ /\ toGemini[s][i].from = "client"
                  /\ JsonParse(toGemini[s][i].text) \in Range(fromClient[s]))
  /\ [][\A s, t \in Sessions :
          (s # t /\ SessionStep(t)) => UNCHANGED SessionState(s)]_vars

(***************************************************************************)
(* Properties of the mic worklet.                                          *)
(***************************************************************************)
Abs(x) == IF x < 0 THEN -x ELSE x

RECURSIVE Flatten(_)
Flatten(frames) ==
  IF frames = <<>> THEN <<>> ELSE Head(frames) \o Flatten(Tail(frames))

\* the 16-bit sample that input sample k is posted as
Quantize(k) == ToInt16(Scale(Clamp(k)))
\* the input sample behind sample i of posted frame f
KeptAt(f, i) == kept[(f - 1) * SamplesPerChunk + i]

\* C12: the ratio is 3, and after process() calls that consumed n input
\* samples in all, however split, floor(n/3) output samples have been
\* produced (posted or buffered), the accumulator carrying n mod 3.
C12_OneOutputPerThreeInputs ==
  /\ Ratio = 3
  /\ Len(kept) = nIn \div 3
  /\ Len(posted) * SamplesPerChunk + Len(resampleBuffer) = nIn \div 3
  /\ acc = nIn % 3

\* Three calls of one sample each produced one output sample.
C12_Witness ==
  /\ nCalls = 3
  /\ nIn = 3
  /\ Len(resampleBuffer) = 1

\* C13: every posted frame has 320 samples; with m samples produced,
\* floor(m/320) frames have been posted, they are the first 320*floor(m/320)
\* quantized samples in order, and the other m mod 320 are in the buffer.
C13_FramesOfExactly320 ==
  /\ SamplesPerChunk = 320
  /\ \A f \in 1..Len(posted) : Len(posted[f]) = 320
  /\ Len(posted) = Len(kept) \div 320
  /\ Len(resampleBuffer) = Len(kept) % 320
  /\ Flatten(posted) \o [i \in 1..Len(resampleBuffer) |->
                           ToInt16(resampleBuffer[i])]
       = [i \in 1..Len(kept) |-> Quantize(kept[i])]

\* Two frames were posted and a partial remainder is held.
C13_Witness ==
  /\ Len(posted) = 2
  /\ Len(resampleBuffer) \in 1..319
  /\ posted[1] # posted[2]

\* C14 as stated: every posted sample is a 16-bit integer, -32768 for an
\* input of -1.0 or below, 32767 for an input of 1.0 or above, and decodes
\* (sample/32768) to within 1/32768 of the clamped input.
C14_DecodeWithinOneStep ==
  \A f \in 1..Len(posted) : \A i \in 1..SamplesPerChunk :
    /\ posted[f][i] \in -32768..32767
    /\ KeptAt(f, i) <= -Den => posted[f][i] = -32768
    /\ KeptAt(f, i) >= Den => posted[f][i] = 32767
    /\ Abs(Decode(posted[f][i]) - Clamp(KeptAt(f, i))) <= Den \div 32768

\* C14 as amended: the same, with the decoded value less than 2/32768 away
\* from the clamped input, and within 1/32768 of it for an input that is not
\* positive.
C14_DecodeWithinTwoSteps ==
  \A f \in 1..Len(posted) : \A i \in 1..SamplesPerChunk :
    /\ posted[f][i] \in -32768..32767
    /\ KeptAt(f, i) <= -Den => posted[f][i] = -32768
    /\ KeptAt(f, i) >= Den => posted[f][i] = 32767
    /\ Abs(Decode(posted[f][i]) - Clamp(KeptAt(f, i))) < 2 * (Den \div 32768)
    /\ KeptAt(f, i) <= 0 =>
         Abs(Decode(posted[f][i]) - Clamp(KeptAt(f, i))) <= Den \div 32768

\* A posted frame holds both extremes, from inputs beyond -1.0 and 1.0, and
\* a positive sample that decodes more than 1/32768 below its input.
C14_Witness ==
  \E f \in 1..Len(posted) :
    /\ \E i \in 1..SamplesPerChunk :
         KeptAt(f, i) > Den /\ posted[f][i] = 32767
    /\ \E i \in 1..SamplesPerChunk :
         KeptAt(f, i) < -Den /\ posted[f][i] = -32768
    /\ \E i \in 1..SamplesPerChunk :
         /\ KeptAt(f, i) < Den
         /\ Decode(posted[f][i]) + Den \div 32768 < KeptAt(f, i)

(***************************************************************************)
(* Properties of the client's session handling.                            *)
(***************************************************************************)
Live(k) == sock[k] \in {"CONNECTING", "OPEN"}

\* C15: when getUserMedia is denied, start() rejects and leaves the client
\* as it was before the call: no connection handle, no connecting or open
\* socket made by that start, so that the next start() does not return early.
C15_DeniedStartLeavesNothing ==
  [][\A k \in Starts :
       GetUserMedia(k, FALSE) =>
         /\ startPc'[k] = "failed"
         /\ ws' = 0
         /\ ~Live(k)']_vars

\* C16: playing implies that a playLoop invocation is running or suspended,
\* and no frame sits in the queue of an open session with no such invocation.
C16_PlayingImpliesDrainLoop ==
  /\ playing => ActiveLoops # {}
  /\ (playbackQueue # <<>> /\ ws # 0 /\ sock[ws] = "OPEN") => ActiveLoops # {}

\* C17: the close event of the session's socket, with no stop(), cancels the
\* session as stop() does: the queue is cleared, playing is reset, the audio
\* context and the worklet node are released.
C17_CloseCancelsSession ==
  [][\A k \in Starts :
       (ws = k /\ SocketClose(k)) =>
         /\ playbackQueue' = <<>>
         /\ ~playing'
         /\ audioCtx' = 0
         /\ workletNode' = 0]_vars

\* C18: when a dequeued frame cannot be built or played, only that frame is
\* skipped: a playLoop invocation is still active after the step.
C18_FailedFrameSkipped ==
  [][(/\ Len(handled') > Len(handled)
      /\ handled'[Len(handled')].out = "error")
       => ActiveLoops' # {}]_vars

(***************************************************************************)
(* Properties of both programs.                                            *)
(***************************************************************************)
\* C19: a message that is not valid JSON is dropped with no other effect.
\* At the relay nothing is put on either wire and no socket changes state;
\* at the client the queue, the playing flag, the playLoop invocations, the
\* handle and the sockets are unchanged.  What is processed later starts
\* from the same state as if the message had not come.
C19_MalformedJsonDropped ==
  /\ [][\A s \in Sessions, d \in ClientData :
          (~d.isBinary /\ d.text.val = "invalid" /\ ClientMessage(s, d)) =>
            UNCHANGED <<client, gemini, toGemini, toClient, fromClient,
                        crashed>>]_vars
  /\ [][\A k \in Starts, m \in ServerMsgs :
          (m.kind = "malformed" /\ OnMessage(k, m)) =>
            UNCHANGED <<ws, sock, playbackQueue, playing, loops, audioCtx,
                        workletNode, handled>>]_vars

\* A session of the relay that got two messages from its browser on an open
\* upstream, one of them malformed, and forwarded the other.
C19_Witness ==
  /\ ~crashed
  /\ nMsgs = 2
  /\ client["A"] = "OPEN" /\ gemini["A"] = "OPEN"
  /\ client["B"] = "none"
  /\ fromGemini["A"] = <<>>
  /\ Len(fromClient["A"]) = 1
  /\ Len(toGemini["A"]) = 2
  /\ toGemini["A"][2].from = "client"

(***************************************************************************)
(* Properties of the client's connection handle.                           *)
(***************************************************************************)
\* C20: a socket that is connecting or open is the one ws refers to, so at
\* most one socket is live and a live socket is never unreferenced.
C20_HandleTracksLiveSocket ==
  \A k \in Starts : Live(k) => ws = k

====
